---- MODULE Spec2Model ----
(***************************************************************************)
(* bankstatementparser: the Pain.001 and CAMT.053 extractors of            *)
(* bank_statement_parsers.py (Pain001Parser, Camt053Parser) and of         *)
(* camt_parser.py (CamtParser).                                            *)
(*                                                                         *)
(* A file is modelled by what the XPath queries of the parsers can see of  *)
(* it: every query result is a node list in document order (a sequence),   *)
(* an element is its text (None for an element without text) and, for an   *)
(* amount element, its Ccy attribute; the root element has the default     *)
(* namespace it declares.  A Python call either returns a                  *)
(* value or raises: an outcome is [exc, at, val], exc = "none" for a       *)
(* return, else the exception's class and the source line that raised it.  *)
(* Amounts are kept in hundredths, so that sums are exact.                 *)
(***************************************************************************)
EXTENDS Integers, Sequences, FiniteSets, TLC

VARIABLES
    doc,    \* the file the parsers are run on
    tree,   \* CamtParser.tree of the CamtParser object, "unset" before __init__
    op,     \* the call made last
    out,    \* its outcome
    argv,   \* the command line of cli.py
    status, \* the exit status of the cli.py process
    folder,           \* os.listdir(folder) of process_camt053_folder
    file_index,       \* the number of entries its loop has taken
    files_df,         \* its list files_df
    statements_df,    \* its table statements_df
    transactions_df,  \* its table transactions_df
    ended             \* how its call has ended: "no", "returned", "raised"

cliVars == <<argv, status>>
folderVars == <<folder, file_index, files_df, statements_df, transactions_df, ended>>
vars == <<doc, tree, op, out, cliVars, folderVars>>

----------------------------------------------------------------------------
(* Bounds of the input files.                                              *)

MaxBatches == 2
MaxPayments == 2
MaxStmts == 2
MaxEntries == 2

----------------------------------------------------------------------------
(* Python values and outcomes.                                             *)

\* Python's None (element.text of an element without text; a default).
None == "<None>"

Raise(e, line) == [exc |-> e, at |-> line, val |-> <<>>]
Return(v) == [exc |-> "none", at |-> 0, val |-> v]
Raised(r) == r.exc # "none"

\* nodes[0]: IndexError on an empty node list.
First(nodes, line) ==
    IF nodes = <<>> THEN Raise("IndexError", line) ELSE Return(nodes[1])

\* The position p of a table, wrapping around.
Pick(table, p) == table[((p - 1) % Len(table)) + 1]

\* float(text), in hundredths: TypeError for None, ValueError for text that
\* is no number.
float(text, line) ==
    CASE text = None     -> Raise("TypeError", line)
      [] text = "150.00" -> Return(15000)
      [] text = "200.00" -> Return(20000)
      [] text = "100.00" -> Return(10000)
      [] text = "40.00"  -> Return(4000)
      [] text = "25.50"  -> Return(2550)
      [] text = "7.00"   -> Return(700)
      [] text = "0.00"   -> Return(0)
      [] text = "-5.00"  -> Return(-500)
      [] OTHER           -> Raise("ValueError", line)

RECURSIVE JoinFrom(_, _, _)
JoinFrom(sep, texts, i) ==
    IF i > Len(texts) THEN ""
    ELSE IF i = Len(texts) THEN texts[i]
    ELSE texts[i] \o sep \o JoinFrom(sep, texts, i + 1)

\* sep.join(texts): TypeError when an item is None.
join(sep, texts, line) ==
    IF \E i \in 1..Len(texts) : texts[i] = None
    THEN Raise("TypeError", line)
    ELSE Return(JoinFrom(sep, texts, 1))

\* [n.text for n in nodes] for account identifier nodes [tag, text].
Texts(nodes) == [i \in 1..Len(nodes) |-> nodes[i].text]

\* FirstTextOr without its default.
FirstTextOr_none(texts, default) == IF texts = <<>> THEN None ELSE texts[1]

\* xpath(...)[0].text if xpath(...) else default.
FirstTextOr(texts, default) == IF texts = <<>> THEN default ELSE texts[1]

\* {**a, **b}, a.update(b): the keys of b override those of a.
Update(a, b) == b @@ a

----------------------------------------------------------------------------
(* Pain.001 files.                                                         *)

PaymentInfoIds == <<"PMT-1", "PMT-2", "PMT-3">>
DebtorNames == <<"Debtor One", "Debtor Two", "Debtor Three">>
ExecutionDates == <<"2023-03-10", "2023-03-11", "2023-03-12">>
DebtorIBANs == <<"DE001", "DE002", "DE003">>
CreditorNames == <<"Global Tech", "Acme Ltd", "Blue Sky">>
InstdAmts == <<"150.00", "200.00", "100.00">>

Iban(t) == [tag |-> "IBAN", text |-> t]
Othr(t) == [tag |-> "Othr", text |-> t]
Amt(t, ccy) == [text |-> t, Ccy |-> ccy]

\* A well-formed CdtTrfTxInf, the j-th of its batch.
BasePayment(j) ==
    [ InstdAmt |-> << Amt(Pick(InstdAmts, j), <<"EUR">>) >>,
      CdtrNm   |-> << Pick(CreditorNames, j) >>,
      CdtrAcct |-> << Iban("FR76") >>,
      Ctry     |-> << "DE" >>,
      Ustrd    |-> << "INV-1" >>,
      AdrLine  |-> << "1 Main St" >> ]

\* A well-formed PmtInf, the i-th of its file, with n payments.
BaseBatch(i, n) ==
    [ PmtInfId    |-> << Pick(PaymentInfoIds, i) >>,
      ReqdExctnDt |-> << Pick(ExecutionDates, i) >>,
      DbtrNm      |-> << Pick(DebtorNames, i) >>,
      DbtrAcct    |-> << Iban(Pick(DebtorIBANs, i)) >>,
      CdtTrfTxInf |-> [j \in 1..n |-> BasePayment(j)] ]

\* What one edit can put in place of a field of a payment or of a batch.
PaymentEdits ==
    [ InstdAmt |-> { <<>>, << Amt("abc", <<"EUR">>) >>, << Amt(None, <<"EUR">>) >>,
                     << Amt("150.00", <<>>) >> },
      CdtrNm   |-> { <<>>, << None >> },
      CdtrAcct |-> { <<>>, << Othr("ACC-9") >>, << Iban("FR76"), Othr("ACC-9") >>,
                     << Othr("ACC-9"), Iban("FR76") >> },
      Ctry     |-> { <<>>, << None >> },
      Ustrd    |-> { <<>>, << None >>, << "INV-1", "REF-2" >>, << "INV-1", None >> },
      AdrLine  |-> { <<>>, << None >>, << "1 Main St", "Berlin" >> } ]

BatchEdits ==
    [ PmtInfId    |-> { <<>> },
      ReqdExctnDt |-> { <<>>, << None >> },
      DbtrNm      |-> { <<>> },
      DbtrAcct    |-> { <<>>, << Othr("ACC-1") >>, << Othr("ACC-1"), Iban("DE001") >> } ]

\* The numbers of payments of the batches of a file.
PainShapes == UNION { [1..b -> 0..MaxPayments] : b \in 0..MaxBatches }

BasePmtInf(shape) == [i \in 1..Len(shape) |-> BaseBatch(i, shape[i])]

\* The batch lists one edit away from bs.
EditedPmtInf(bs) ==
    UNION { { [bs EXCEPT ![i][f] = v] : v \in BatchEdits[f] } :
            i \in 1..Len(bs), f \in DOMAIN BatchEdits } \cup
    UNION { { [bs EXCEPT ![i].CdtTrfTxInf[j][f] = v] :
                 j \in 1..Len(bs[i].CdtTrfTxInf), v \in PaymentEdits[f] } :
            i \in 1..Len(bs), f \in DOMAIN PaymentEdits }

----------------------------------------------------------------------------
(* Pain001Parser, bank_statement_parsers.py.                               *)

_parse_batch_header(batch) ==
    LET execution_date == First(batch.ReqdExctnDt, 95)
        debtor_name == First(batch.DbtrNm, 96)
        debtor_account == FirstTextOr(Texts(batch.DbtrAcct), "")
    IN  IF Raised(execution_date) THEN execution_date
        ELSE IF Raised(debtor_name) THEN debtor_name
        ELSE Return([ debtor_name    |-> debtor_name.val,
                      debtor_account |-> debtor_account,
                      execution_date |-> execution_date.val ])

\* xpath('.//InstdAmt/@Ccy'), xpath('./Amt/@Ccy'): the Ccy attributes of the
\* amount elements, in document order.
RECURSIVE CcyAttrs(_)
CcyAttrs(amts) ==
    IF amts = <<>> THEN <<>> ELSE amts[1].Ccy \o CcyAttrs(Tail(amts))

_parse_payment(payment) ==
    LET amount == First(payment.InstdAmt, 144)
        currency == First(CcyAttrs(payment.InstdAmt), 145)
        name == First(payment.CdtrNm, 146)
        account == FirstTextOr(Texts(payment.CdtrAcct), "")
        country == FirstTextOr(payment.Ctry, "")
        reference == join(" ", payment.Ustrd, 158)
        address == join(" ", payment.AdrLine, 160)
    IN  IF Raised(amount) THEN amount
        ELSE IF Raised(currency) THEN currency
        ELSE IF Raised(name) THEN name
        ELSE IF Raised(reference) THEN reference
        ELSE IF Raised(address) THEN address
        ELSE LET Amount == float(amount.val.text, 164)
             IN  IF Raised(Amount) THEN Amount
                 ELSE Return([ Name            |-> name.val,
                               Amount          |-> Amount.val,
                               Currency        |-> currency.val,
                               Reference       |-> reference.val,
                               CreditorAccount |-> account,
                               Country         |-> country,
                               Address         |-> address.val ])

\* PaymentLoop skipping the payments that do not parse.
RECURSIVE PaymentLoop_skip(_, _, _, _)
PaymentLoop_skip(txs, header, k, payments) ==
    IF k > Len(txs) THEN Return(payments)
    ELSE LET payment_dict == _parse_payment(txs[k])
         IN  IF Raised(payment_dict) THEN PaymentLoop_skip(txs, header, k + 1, payments)
             ELSE PaymentLoop_skip(txs, header, k + 1,
                      Append(payments, Update(payment_dict.val, header)))

\* The loop of _parse_batch over batch.xpath('.//CdtTrfTxInf'), from the
\* k-th payment on, payments being the list built so far.
RECURSIVE PaymentLoop(_, _, _, _)
PaymentLoop(txs, header, k, payments) ==
    IF k > Len(txs) THEN Return(payments)
    ELSE LET payment_dict == _parse_payment(txs[k])
         IN  IF Raised(payment_dict) THEN payment_dict
             ELSE PaymentLoop(txs, header, k + 1,
                      Append(payments, Update(payment_dict.val, header)))

_parse_batch(batch) ==
    LET header == _parse_batch_header(batch)
    IN  IF Raised(header) THEN header
        ELSE PaymentLoop(batch.CdtTrfTxInf, header.val, 1, <<>>)

\* BatchLoop with self.payments = payments in place of self.payments.extend.
RECURSIVE BatchLoop_assign(_, _, _)
BatchLoop_assign(batches, k, payments) ==
    IF k > Len(batches) THEN Return(payments)
    ELSE LET more == _parse_batch(batches[k])
         IN  IF Raised(more) THEN more
             ELSE BatchLoop_assign(batches, k + 1, more.val)

\* The loop of Pain001Parser.__init__ over self.batches.
RECURSIVE BatchLoop(_, _, _)
BatchLoop(batches, k, payments) ==
    IF k > Len(batches) THEN Return(payments)
    ELSE LET more == _parse_batch(batches[k])
         IN  IF Raised(more) THEN more
             ELSE BatchLoop(batches, k + 1, payments \o more.val)

----------------------------------------------------------------------------
(* CAMT.053 files.                                                         *)

StatementIds == <<"STMT-1", "STMT-2", "STMT-3">>
AccountIBANs == <<"GB001", "GB002", "GB003">>
EntryAmts == <<"100.00", "40.00", "25.50", "7.00", "150.00", "200.00">>
EntryInds == <<"CRDT", "DBIT">>

\* A well-formed Ntry, the k-th of the s-th statement.
BaseEntry(s, k) ==
    [ DbtrNm    |-> << "Payer" >>,
      DbtrAcct  |-> << Iban("NL01") >>,
      CdtrNm    |-> << "Payee" >>,
      CdtrAcct  |-> << Iban("NL02") >>,
      Amt       |-> << Amt(Pick(EntryAmts, MaxEntries * (s - 1) + k), <<"EUR">>) >>,
      CdtDbtInd |-> << Pick(EntryInds, k) >>,
      Ustrd     |-> << "REF-A" >>,
      ValDt     |-> << "2023-03-10" >>,
      BookgDt   |-> << "2023-03-09" >> ]

BaseBal(code, amount, ind) ==
    [ Cd        |-> << code >>,
      Amt       |-> << Amt(amount, <<"EUR">>) >>,
      CdtDbtInd |-> << ind >>,
      Dt        |-> << "2023-03-10" >> ]

\* A well-formed Stmt, the s-th of its file, with n entries.
BaseStmt(s, n) ==
    [ Id      |-> << Pick(StatementIds, s) >>,
      AcctId  |-> << Iban(Pick(AccountIBANs, s)) >>,
      AcctNm  |-> << "Main account" >>,
      CreDtTm |-> << "2023-03-10T15:30:47" >>,
      Bal     |-> << BaseBal("OPBD", "200.00", "CRDT"),
                     BaseBal("CLBD", "150.00", "DBIT") >>,
      Ntry    |-> [k \in 1..n |-> BaseEntry(s, k)] ]

EntryEdits ==
    [ DbtrNm    |-> { <<>>, << None >> },
      DbtrAcct  |-> { <<>>, << Othr("ACC-7") >>, << Othr("ACC-7"), Iban("NL01") >> },
      CdtrNm    |-> { <<>> },
      CdtrAcct  |-> { <<>>, << Iban("NL02"), Othr("ACC-8") >> },
      Amt       |-> { <<>>, << Amt("abc", <<"EUR">>) >>, << Amt(None, <<"EUR">>) >>,
                      << Amt("100.00", <<>>) >>, << Amt("-5.00", <<"EUR">>) >>,
                      << Amt("0.00", <<"EUR">>) >> },
      CdtDbtInd |-> { <<>>, << "CRDT" >>, << "DBIT" >>, << None >> },
      Ustrd     |-> { <<>>, << None >>, << "REF-A", "REF-B" >>, << "REF-A", None >> },
      ValDt     |-> { <<>>, << None >> },
      BookgDt   |-> { <<>>, << None >> } ]

BalEdits ==
    [ Cd        |-> { <<>>, << "CLAV" >>, << "PRCD" >>, << "FWAV" >>, << "XXXX" >>,
                      << "OPBD" >>, << "CLBD" >>, << "StatementId" >>,
                      << "NumTransactions" >> },
      Amt       |-> { <<>>, << Amt("abc", <<"EUR">>) >>, << Amt("200.00", <<>>) >>,
                      << Amt("-5.00", <<"EUR">>) >> },
      CdtDbtInd |-> { <<>>, << "CRDT" >>, << "DBIT" >> },
      Dt        |-> { <<>> } ]

StmtEdits ==
    [ Id      |-> { <<>>, << None >> },
      AcctId  |-> { <<>>, << Othr("ACC-5") >>, << Othr("ACC-5"), Iban("GB001") >> },
      AcctNm  |-> { <<>> },
      CreDtTm |-> { <<>> },
      Bal     |-> { <<>> } ]

\* The numbers of entries of the statements of a file.
CamtShapes == UNION { [1..n -> 0..MaxEntries] : n \in 0..MaxStmts }

BaseStmts(shape) == [s \in 1..Len(shape) |-> BaseStmt(s, shape[s])]

\* The statement lists one edit away from ss.
EditedStmts(ss) ==
    UNION { { [ss EXCEPT ![s][f] = v] : v \in StmtEdits[f] } :
            s \in 1..Len(ss), f \in DOMAIN StmtEdits } \cup
    UNION { { [ss EXCEPT ![s].Bal[b][f] = v] :
                 b \in 1..Len(ss[s].Bal), v \in BalEdits[f] } :
            s \in 1..Len(ss), f \in DOMAIN BalEdits } \cup
    UNION { { [ss EXCEPT ![s].Ntry[k][f] = v] :
                 k \in 1..Len(ss[s].Ntry), v \in EntryEdits[f] } :
            s \in 1..Len(ss), f \in DOMAIN EntryEdits }

----------------------------------------------------------------------------
(* Files.  kind: "missing" (no such file), "empty" (no content), "text"    *)
(* (content that is no XML), "xml".  xmlns is the default namespace the    *)
(* root element declares, GrpHdr, PmtInf and Stmt are the elements of the  *)
(* paths './/CstmrCdtTrfInitn/GrpHdr', './/PmtInf' and './/Stmt'.          *)

\* No default namespace declared.
NoNs == ""
\* The namespaces the parsers name, and those of a later version of each of
\* the two message schemas.
PainNs == "urn:iso:std:iso:20022:tech:xsd:pain.001.001.03"
CamtNs == "urn:iso:std:iso:20022:tech:xsd:camt.053.001.02"
PainNsLater == "urn:iso:std:iso:20022:tech:xsd:pain.001.001.09"
CamtNsLater == "urn:iso:std:iso:20022:tech:xsd:camt.053.001.04"

File(kind, xmlns, header, batches, stmts) ==
    [kind |-> kind, xmlns |-> xmlns, GrpHdr |-> header, PmtInf |-> batches,
     Stmt |-> stmts]

\* The GrpHdr of a Pain.001 file.
BaseGrpHdr == << [MsgId |-> << "MSG-1" >>] >>

\* The files of the model: no file, no content, content that is no XML, and
\* the well-formed Pain.001 and CAMT.053 files of every shape within the
\* bounds, each as it is (in the namespace the parsers name) and with every
\* one edit: of one field, of the namespace declaration (none, a later
\* version) or of the group header (none).
IsFile(d) ==
    \/ \E k \in {"missing", "empty", "text"} : d = File(k, NoNs, <<>>, <<>>, <<>>)
    \/ \E s \in PainShapes :
          \/ \E bs \in {BasePmtInf(s)} \cup EditedPmtInf(BasePmtInf(s)) :
                d = File("xml", PainNs, BaseGrpHdr, bs, <<>>)
          \/ \E ns \in {NoNs, PainNsLater} :
                d = File("xml", ns, BaseGrpHdr, BasePmtInf(s), <<>>)
          \/ d = File("xml", PainNs, <<>>, BasePmtInf(s), <<>>)
    \/ \E s \in CamtShapes :
          \/ \E ss \in {BaseStmts(s)} \cup EditedStmts(BaseStmts(s)) :
                d = File("xml", CamtNs, <<>>, <<>>, ss)
          \/ \E ns \in {NoNs, CamtNsLater} :
                d = File("xml", ns, <<>>, <<>>, BaseStmts(s))

\* re.sub('<Document[\\S\\s]*?>', '<Document>', data): the opening tag of
\* the root, with whatever it declares, becomes the bare tag.
sub_Document(file) == [file EXCEPT !.xmlns = NoNs]

\* data.replace('xmlns="<ns>"', ''): the declaration of the namespace ns is
\* taken away, any other text is left as it is.
replace(file, ns) == IF file.xmlns = ns THEN [file EXCEPT !.xmlns = NoNs] ELSE file

\* What etree.fromstring returns: an element, or None.
Element(header, batches, stmts) ==
    [isNone |-> FALSE, GrpHdr |-> header, PmtInf |-> batches, Stmt |-> stmts]
NoElement == [isNone |-> TRUE, GrpHdr |-> <<>>, PmtInf |-> <<>>, Stmt |-> <<>>]

\* etree.fromstring(data, XMLParser(recover=True)): the root element of an
\* XML file.  The paths of the parsers name elements of no namespace: they
\* match the elements of a root that declares no default namespace, and
\* none of a root that declares one.  For content the recovering parser
\* makes no element of, lxml raises XMLSyntaxError (libxml2 returned no
\* document) or returns None (a document without a root), depending on the
\* content and on the build.
fromstring(file, line) ==
    IF file.kind = "xml"
    THEN { Return(IF file.xmlns = NoNs
                  THEN Element(file.GrpHdr, file.PmtInf, file.Stmt)
                  ELSE Element(<<>>, <<>>, <<>>)) }
    ELSE { Raise("XMLSyntaxError", line), Return(NoElement) }

\* Pain001Parser.__init__, parsed being what etree.fromstring did: the
\* outcome, its value being the attributes of the object.  batches holds the
\* PmtInf elements of the tree.
Pain001Parser(file, parsed) ==
    IF file.kind = "missing" THEN Raise("FileNotFoundError", 61)
    ELSE IF Raised(parsed) THEN parsed
    ELSE IF parsed.val.isNone THEN Raise("AttributeError", 72)
    ELSE LET batches == parsed.val.PmtInf
             payments == BatchLoop(batches, 1, <<>>)
         IN  IF Raised(payments) THEN payments
             ELSE Return([ batches              |-> batches,
                           batches_count        |-> Len(batches),
                           payments             |-> payments.val,
                           total_payments_count |-> Len(payments.val) ])

----------------------------------------------------------------------------
(* Camt053Parser, bank_statement_parsers.py.                               *)

DEFINITIONS ==
    [ OPBD |-> "Opening booked balance",
      CLBD |-> "Closing booked balance",
      CLAV |-> "Closing available balance" ]

\* get with the empty string where the code is not in the table.
get_blank(table, code) ==
    IF code \in DOMAIN table THEN table[code] ELSE ""

\* table.get(code, 'Unknown code')
get(table, code) ==
    IF code \in DOMAIN table THEN table[code] ELSE "Unknown code"

\* Signed with the test on the credit marker.
Signed_credit(amount, cdt_dbt) == IF cdt_dbt = "CRDT" THEN -amount ELSE amount

\* if cdt_dbt == 'DBIT': amount *= -1
Signed(amount, cdt_dbt) == IF cdt_dbt = "DBIT" THEN -amount ELSE amount

_parse_statement_header(stmt) ==
    LET account_id == First(Texts(stmt.AcctId), 257)
        name == FirstTextOr(stmt.AcctNm, "")
        stmt_id == First(stmt.Id, 261)
    IN  IF Raised(account_id) THEN account_id
        ELSE IF Raised(stmt_id) THEN stmt_id
        ELSE Return([ StatementId |-> stmt_id.val,
                      AccountId   |-> account_id.val,
                      AccountName |-> name ])

\* The body of the loop of _parse_statement_balances: the balances dict
\* after one more Bal.
Camt053Parser_parse_balance(bal, balances) ==
    LET code == First(bal.Cd, 282)
        text == First(bal.Amt, 284)
        cdt_dbt == First(bal.CdtDbtInd, 285)
    IN  IF Raised(code) THEN code
        ELSE IF Raised(text) THEN text
        ELSE LET amount == float(text.val.text, 284)
             IN  IF Raised(amount) THEN amount
                 ELSE IF Raised(cdt_dbt) THEN cdt_dbt
                 ELSE Return(Update(balances,
                          code.val :> [ Amount      |-> Signed(amount.val, cdt_dbt.val),
                                        Description |-> get(DEFINITIONS, code.val) ]))

RECURSIVE BalanceLoop(_, _, _)
BalanceLoop(bals, k, balances) ==
    IF k > Len(bals) THEN Return(balances)
    ELSE LET more == Camt053Parser_parse_balance(bals[k], balances)
         IN  IF Raised(more) THEN more ELSE BalanceLoop(bals, k + 1, more.val)

_parse_statement_balances(stmt) ==
    BalanceLoop(stmt.Bal, 1, [code \in {} |-> code])

Camt053Parser_parse_transaction(entry) ==
    LET debtor_name == FirstTextOr(entry.DbtrNm, "")
        debtor_acct == FirstTextOr(Texts(entry.DbtrAcct), "")
        creditor_name == FirstTextOr(entry.CdtrNm, "")
        creditor_acct == FirstTextOr(Texts(entry.CdtrAcct), "")
        text == First(entry.Amt, 360)
        currency == First(CcyAttrs(entry.Amt), 361)
        cdt_dbt == First(entry.CdtDbtInd, 362)
        reference == join(" ", entry.Ustrd, 366)
        value_date == FirstTextOr(entry.ValDt, None)
        booking_date == FirstTextOr(entry.BookgDt, None)
    IN  IF Raised(text) THEN text
        ELSE LET amount == float(text.val.text, 360)
             IN  IF Raised(amount) THEN amount
                 ELSE IF Raised(currency) THEN currency
                 ELSE IF Raised(cdt_dbt) THEN cdt_dbt
                 ELSE IF Raised(reference) THEN reference
                 ELSE Return([ DebtorName      |-> debtor_name,
                               DebtorAccount   |-> debtor_acct,
                               CreditorName    |-> creditor_name,
                               CreditorAccount |-> creditor_acct,
                               Amount          |-> Signed(amount.val, cdt_dbt.val),
                               Currency        |-> currency.val,
                               CreditDebit     |-> cdt_dbt.val,
                               Reference       |-> reference.val,
                               ValueDate       |-> value_date,
                               BookingDate     |-> booking_date ])

\* The loops of _parse_transactions: from the k-th entry of the s-th
\* statement on, transactions being the list built so far.
RECURSIVE TransactionLoop(_, _, _, _)
TransactionLoop(stmt_list, s, k, transactions) ==
    IF s > Len(stmt_list) THEN Return(transactions)
    ELSE IF k > Len(stmt_list[s].Ntry)
    THEN TransactionLoop(stmt_list, s + 1, 1, transactions)
    ELSE LET txn == Camt053Parser_parse_transaction(stmt_list[s].Ntry[k])
             id == First(stmt_list[s].Id, 404)
         IN  IF Raised(txn) THEN txn
             ELSE IF Raised(id) THEN id
             ELSE TransactionLoop(stmt_list, s, k + 1,
                      Append(transactions,
                             Update(txn.val, [StatementId |-> id.val])))

_parse_transactions(stmt_list) == TransactionLoop(stmt_list, 1, 1, <<>>)

\* SumAmount over the magnitudes of the amounts.
RECURSIVE SumAmount_magnitudes(_)
SumAmount_magnitudes(transactions) ==
    IF transactions = <<>> THEN 0
    ELSE (IF transactions[1].Amount < 0 THEN -transactions[1].Amount
          ELSE transactions[1].Amount) + SumAmount_magnitudes(Tail(transactions))

\* sum(t['Amount'] for t in transactions)
RECURSIVE SumAmount(_)
SumAmount(transactions) ==
    IF transactions = <<>> THEN 0
    ELSE transactions[1].Amount + SumAmount(Tail(transactions))

_parse_statement_summary(stmt) ==
    LET transactions == _parse_transactions(<< stmt >>)
    IN  IF Raised(transactions) THEN transactions
        ELSE Return([ NumTransactions |-> Len(transactions.val),
                      TotalAmount     |-> SumAmount(transactions.val) ])

\* The loop of _parse_statements.
RECURSIVE StatementLoop(_, _, _)
StatementLoop(stmt_list, s, statements) ==
    IF s > Len(stmt_list) THEN Return(statements)
    ELSE LET header == _parse_statement_header(stmt_list[s])
             balances == _parse_statement_balances(stmt_list[s])
             summary == _parse_statement_summary(stmt_list[s])
         IN  IF Raised(header) THEN header
             ELSE IF Raised(balances) THEN balances
             ELSE IF Raised(summary) THEN summary
             ELSE StatementLoop(stmt_list, s + 1,
                      Append(statements,
                             Update(Update(header.val, balances.val), summary.val)))

_parse_statements(stmt_list) == StatementLoop(stmt_list, 1, <<>>)

\* Camt053Parser.__init__ with self.tree = tree, as CamtParser has it.
Camt053Parser_keeps_tree(file, parsed) ==
    IF file.kind = "missing" THEN Raise("FileNotFoundError", 221)
    ELSE IF Raised(parsed) THEN Raise("FileParserError", 234)
    ELSE IF parsed.val.isNone THEN Raise("AttributeError", 237)
    ELSE LET stmt_list == parsed.val.Stmt
             statements == _parse_statements(stmt_list)
             transactions == _parse_transactions(stmt_list)
         IN  IF stmt_list = <<>> THEN Raise("FileParserError", 239)
             ELSE IF Raised(statements) THEN statements
             ELSE IF Raised(transactions) THEN transactions
             ELSE Return([ tree         |-> parsed.val,
                           statements   |-> statements.val,
                           transactions |-> transactions.val ])

\* Camt053Parser.__init__, parsed being what etree.fromstring did: the
\* outcome, its value being the attributes of the object.
Camt053Parser(file, parsed) ==
    IF file.kind = "missing" THEN Raise("FileNotFoundError", 221)
    ELSE IF Raised(parsed) THEN Raise("FileParserError", 234)
    ELSE IF parsed.val.isNone THEN Raise("AttributeError", 237)
    ELSE LET stmt_list == parsed.val.Stmt
             statements == _parse_statements(stmt_list)
             transactions == _parse_transactions(stmt_list)
         IN  IF stmt_list = <<>> THEN Raise("FileParserError", 239)
             ELSE IF Raised(statements) THEN statements
             ELSE IF Raised(transactions) THEN transactions
             ELSE Return([ statements   |-> statements.val,
                           transactions |-> transactions.val ])

----------------------------------------------------------------------------
(* CamtParser, camt_parser.py.  A DataFrame is the list of its rows.       *)

definitions ==
    [ OPBD |-> "Opening Booked balance",
      CLBD |-> "Closing Booked balance",
      CLAV |-> "Closing Available balance",
      PRCD |-> "Previously Closed Booked balance",
      FWAV |-> "Forward Available balance" ]

\* CamtParser.__init__: the outcome, its value being self.tree.
CamtParser(file, parsed) ==
    IF file.kind = "missing" THEN Raise("FileNotFoundError", 57)
    ELSE IF Raised(parsed) THEN Raise(parsed.exc, 74)
    ELSE Return(parsed.val)

_get_element_text(nodes) == IF nodes = <<>> THEN "" ELSE nodes[1]

_get_account_id(statement) ==
    IF statement.AcctId = <<>> THEN "" ELSE statement.AcctId[1].text

_parse_balance(bal_elem) ==
    LET code == First(bal_elem.Cd, 150)
        text == First(bal_elem.Amt, 152)
        cdt_dbt == First(bal_elem.CdtDbtInd, 153)
        currency == First(CcyAttrs(bal_elem.Amt), 156)
        date == First(bal_elem.Dt, 157)
    IN  IF Raised(code) THEN code
        ELSE IF Raised(text) THEN text
        ELSE LET amount == float(text.val.text, 152)
             IN  IF Raised(amount) THEN amount
                 ELSE IF Raised(cdt_dbt) THEN cdt_dbt
                 ELSE IF Raised(currency) THEN currency
                 ELSE IF Raised(date) THEN date
                 ELSE Return([ Amount      |-> Signed(amount.val, cdt_dbt.val),
                               Currency    |-> currency.val,
                               Code        |-> code.val,
                               Description |-> get(definitions, code.val),
                               DrCr        |-> cdt_dbt.val,
                               Date        |-> date.val ])

RECURSIVE _get_balances_from(_, _, _)
_get_balances_from(bal_elems, k, balances) ==
    IF k > Len(bal_elems) THEN Return(balances)
    ELSE LET balance == _parse_balance(bal_elems[k])
         IN  IF Raised(balance) THEN balance
             ELSE _get_balances_from(bal_elems, k + 1, Append(balances, balance.val))

_get_balances_for_statement(statement) ==
    _get_balances_from(statement.Bal, 1, <<>>)

\* for row in rows: row['AccountId'] = account_id
WithAccountId(rows, account_id) ==
    [i \in 1..Len(rows) |-> Update(rows[i], [AccountId |-> account_id])]

RECURSIVE AccountBalancesLoop(_, _, _)
AccountBalancesLoop(statements, s, balances) ==
    IF s > Len(statements) THEN Return(balances)
    ELSE LET bal_list == _get_balances_for_statement(statements[s])
         IN  IF Raised(bal_list) THEN bal_list
             ELSE AccountBalancesLoop(statements, s + 1,
                      balances \o WithAccountId(bal_list.val,
                                                _get_account_id(statements[s])))

get_account_balances(root) ==
    IF root.isNone THEN Raise("AttributeError", 97)
    ELSE AccountBalancesLoop(root.Stmt, 1, <<>>)

\* [ref.text for ref in entry.xpath('.//Ustrd') if ref.text]
RECURSIVE Truthy(_)
Truthy(texts) ==
    IF texts = <<>> THEN <<>>
    ELSE IF texts[1] = None \/ texts[1] = "" THEN Truthy(Tail(texts))
    ELSE << texts[1] >> \o Truthy(Tail(texts))

CamtParser_parse_transaction(entry) ==
    LET debtor == _get_element_text(entry.DbtrNm)
        creditor == _get_element_text(entry.CdtrNm)
        reference == JoinFrom("", Truthy(entry.Ustrd), 1)
        text == First(entry.Amt, 238)
        currency == First(CcyAttrs(entry.Amt), 239)
        cdt_dbt == First(entry.CdtDbtInd, 240)
        value_date == _get_element_text(entry.ValDt)
        booking_date == _get_element_text(entry.BookgDt)
    IN  IF Raised(text) THEN text
        ELSE LET amount == float(text.val.text, 238)
             IN  IF Raised(amount) THEN amount
                 ELSE IF Raised(currency) THEN currency
                 ELSE IF Raised(cdt_dbt) THEN cdt_dbt
                 ELSE Return([ Amount    |-> Signed(amount.val, cdt_dbt.val),
                               Currency  |-> currency.val,
                               DrCr      |-> cdt_dbt.val,
                               Debtor    |-> debtor,
                               Creditor  |-> creditor,
                               Reference |-> reference,
                               ValDt     |-> value_date,
                               BookgDt   |-> booking_date ])

RECURSIVE _get_transactions_from(_, _, _)
_get_transactions_from(entries, k, transactions) ==
    IF k > Len(entries) THEN Return(transactions)
    ELSE LET tx == CamtParser_parse_transaction(entries[k])
         IN  IF Raised(tx) THEN tx
             ELSE _get_transactions_from(entries, k + 1, Append(transactions, tx.val))

_get_transactions_for_statement(statement) ==
    _get_transactions_from(statement.Ntry, 1, <<>>)

\* TransactionsLoop with the rows of a statement put before those of the
\* statements read so far.
RECURSIVE TransactionsLoop_prepend(_, _, _)
TransactionsLoop_prepend(statements, s, transactions) ==
    IF s > Len(statements) THEN Return(transactions)
    ELSE LET tx_list == _get_transactions_for_statement(statements[s])
         IN  IF Raised(tx_list) THEN tx_list
             ELSE TransactionsLoop_prepend(statements, s + 1,
                      WithAccountId(tx_list.val, _get_account_id(statements[s]))
                          \o transactions)

\* The loop of get_transactions over the statements.
RECURSIVE TransactionsLoop(_, _, _)
TransactionsLoop(statements, s, transactions) ==
    IF s > Len(statements) THEN Return(transactions)
    ELSE LET tx_list == _get_transactions_for_statement(statements[s])
         IN  IF Raised(tx_list) THEN tx_list
             ELSE TransactionsLoop(statements, s + 1,
                      transactions \o WithAccountId(tx_list.val,
                                                    _get_account_id(statements[s])))

get_transactions(root) ==
    IF root.isNone THEN Raise("AttributeError", 179)
    ELSE TransactionsLoop(root.Stmt, 1, <<>>)

_get_statement_stats(statement) ==
    LET account_id == _get_account_id(statement)
        created == _get_element_text(statement.CreDtTm)
        transactions == _get_transactions_for_statement(statement)
    IN  IF Raised(transactions) THEN transactions
        ELSE Return([ AccountId        |-> account_id,
                      StatementCreated |-> created,
                      NumTransactions  |-> Len(transactions.val),
                      NetAmount        |-> IF Len(transactions.val) > 0
                                           THEN SumAmount(transactions.val)
                                           ELSE 0 ])

RECURSIVE StatsLoop(_, _, _)
StatsLoop(statements, s, stats) ==
    IF s > Len(statements) THEN Return(stats)
    ELSE LET stmt_stats == _get_statement_stats(statements[s])
         IN  IF Raised(stmt_stats) THEN stmt_stats
             ELSE StatsLoop(statements, s + 1, Append(stats, stmt_stats.val))

get_statement_stats(root) ==
    IF root.isNone THEN Raise("AttributeError", 297)
    ELSE StatsLoop(root.Stmt, 1, <<>>)

----------------------------------------------------------------------------
(* The calls a caller can make on one file.                                *)

Unset == [set |-> FALSE, root |-> NoElement]

\* sys.exit(code), and a process that has not exited.
Exit(code) == [done |-> TRUE, code |-> code]
Running == [done |-> FALSE, code |-> 0]

\* No command line, no cli.py process.
NoCli ==
    /\ argv = [given |-> FALSE, valid |-> FALSE, type |-> "", output |-> None]
    /\ status = Running

\* No folder, no call of process_camt053_folder.
NoFolder ==
    /\ folder = <<>>
    /\ file_index = 0
    /\ files_df = <<>>
    /\ statements_df = <<>>
    /\ transactions_df = <<>>
    /\ ended = "no"

Init ==
    /\ IsFile(doc)
    /\ tree = Unset
    /\ op = "none"
    /\ out = Return(<<>>)
    /\ NoCli
    /\ NoFolder

NewPain001Parser ==
    \E parsed \in fromstring(sub_Document(doc), 69) :
        /\ op' = "Pain001Parser"
        /\ out' = Pain001Parser(doc, parsed)
        /\ UNCHANGED <<doc, tree, cliVars, folderVars>>

NewCamt053Parser ==
    \E parsed \in fromstring(replace(doc, CamtNs), 232) :
        /\ op' = "Camt053Parser"
        /\ out' = Camt053Parser(doc, parsed)
        /\ UNCHANGED <<doc, tree, cliVars, folderVars>>

NewCamtParser ==
    \E parsed \in fromstring(replace(doc, CamtNs), 71) :
        LET made == CamtParser(doc, parsed)
        IN  /\ op' = "CamtParser"
            /\ out' = made
            /\ tree' = IF Raised(made) THEN tree ELSE [set |-> TRUE, root |-> made.val]
            /\ UNCHANGED <<doc, cliVars, folderVars>>

CallGetAccountBalances ==
    /\ tree.set
    /\ op' = "get_account_balances"
    /\ out' = get_account_balances(tree.root)
    /\ UNCHANGED <<doc, tree, cliVars, folderVars>>

CallGetTransactions ==
    /\ tree.set
    /\ op' = "get_transactions"
    /\ out' = get_transactions(tree.root)
    /\ UNCHANGED <<doc, tree, cliVars, folderVars>>

CallGetStatementStats ==
    /\ tree.set
    /\ op' = "get_statement_stats"
    /\ out' = get_statement_stats(tree.root)
    /\ UNCHANGED <<doc, tree, cliVars, folderVars>>

Next ==
    \/ NewPain001Parser
    \/ NewCamt053Parser
    \/ NewCamtParser
    \/ CallGetAccountBalances
    \/ CallGetTransactions
    \/ CallGetStatementStats

Spec == Init /\ [][Next]_vars

----------------------------------------------------------------------------
(* Pain001Parser of pain001_parser.py, the class with the method parse().  *)

\* Pain001Parser.__init__ of pain001_parser.py: the outcome, its value being
\* self.tree.
pain001_parser_Pain001Parser(file, parsed) ==
    IF file.kind = "missing" THEN Raise("FileNotFoundError", 35)
    ELSE IF Raised(parsed) THEN Raise(parsed.exc, 53)
    ELSE Return(parsed.val)

\* payment['PmtInfId'] = pmt.find('PmtInfId').text if ... else None
PmtInfIdOf(pmt) == [PmtInfId |-> FirstTextOr(pmt.PmtInfId, None)]

\* Pain001Parser.parse() of pain001_parser.py, without output_file: whatever
\* its body raises becomes a ParseError.
parse(root) ==
    IF root.isNone THEN Raise("ParseError", 113)
    ELSE IF root.GrpHdr = <<>> THEN Raise("ParseError", 113)
    ELSE Return([i \in 1..Len(root.PmtInf) |-> PmtInfIdOf(root.PmtInf[i])])

----------------------------------------------------------------------------
(* cli.py.  argv: given (len(sys.argv) > 1), valid (parse_args accepts     *)
(* it), type (--type), output (--output, None without it); the file of     *)
(* --input is doc.                                                         *)

\* The names cli.py imports from the package bankstatementparser.
cli_CamtParser(file, parsed) == CamtParser(file, parsed)
cli_Pain001Parser(file, parsed) == pain001_parser_Pain001Parser(file, parsed)

\* The command lines of the model.
Argvs ==
    { [given |-> FALSE, valid |-> FALSE, type |-> "", output |-> None],
      [given |-> TRUE, valid |-> FALSE, type |-> "", output |-> None] } \cup
    [given : {TRUE}, valid : {TRUE}, type : {"camt", "pain001"},
     output : {None, "out.csv"}]

\* data_df.to_csv(output_path) if output_path, else print(data_df); written
\* tells whether the file system takes the output.
Output(data, output_path, written, line) ==
    IF output_path # None /\ ~written THEN Raise("OSError", line) ELSE Return(data)

\* The body of the try of parse_camt.
TryCamt(file, output_path, parsed, written) ==
    LET parser == cli_CamtParser(file, parsed)
    IN  IF Raised(parser) THEN parser
        ELSE LET data == get_statement_stats(parser.val)
             IN  IF Raised(data) THEN data
                 ELSE Output(data.val, output_path, written, 78)

\* parse_camt with a handler that prints the error and returns.
parse_camt_noexit(file, output_path, parsed, written) ==
    [out |-> TryCamt(file, output_path, parsed, written), status |-> Running]

\* parse_camt: what its try body did, and the exit of its handler.
parse_camt(file, output_path, parsed, written) ==
    LET body == TryCamt(file, output_path, parsed, written)
    IN  [out |-> body, status |-> IF Raised(body) THEN Exit(1) ELSE Running]

\* The body of the try of parse_pain.
TryPain(file, output_path, parsed, written) ==
    LET parser == cli_Pain001Parser(file, parsed)
    IN  IF Raised(parser) THEN parser
        ELSE LET parsed_data == parse(parser.val)
             IN  IF Raised(parsed_data) THEN parsed_data
                 ELSE Output(parsed_data.val, output_path, written, 106)

parse_pain(file, output_path, parsed, written) ==
    LET body == TryPain(file, output_path, parsed, written)
    IN  [out |-> body, status |-> IF Raised(body) THEN Exit(1) ELSE Running]

\* BankStatementCLI.run: the exit of argparse on a command line it refuses
\* has the status 2.
run(args, file, parsed, written) ==
    IF ~args.given THEN [out |-> Return(<<>>), status |-> Exit(1)]
    ELSE IF ~args.valid THEN [out |-> Return(<<>>), status |-> Exit(2)]
    ELSE IF file.kind = "missing" THEN [out |-> Return(<<>>), status |-> Exit(1)]
    ELSE IF args.type = "camt" THEN parse_camt(file, args.output, parsed, written)
    ELSE IF args.type = "pain001" THEN parse_pain(file, args.output, parsed, written)
    ELSE [out |-> Return(<<>>), status |-> Exit(1)]

\* The namespace declaration the parser of --type takes away, and the line
\* of its etree.fromstring.
NsOfType(type) == IF type = "pain001" THEN PainNs ELSE CamtNs
LineOfType(type) == IF type = "pain001" THEN 50 ELSE 71

InitCLI ==
    /\ IsFile(doc)
    /\ tree = Unset
    /\ op = "none"
    /\ out = Return(<<>>)
    /\ argv \in Argvs
    /\ status = Running
    /\ NoFolder

\* python cli.py ...: cli.run(), and the end of the script with the status
\* 0 when run() returns.
BankStatementCLI_run ==
    /\ ~status.done
    /\ \E parsed \in fromstring(replace(doc, NsOfType(argv.type)), LineOfType(argv.type)) :
       \E written \in BOOLEAN :
          \E ran \in { run(argv, doc, parsed, written) } :
              /\ op' = "run"
              /\ out' = ran.out
              /\ status' = IF ran.status.done THEN ran.status ELSE Exit(0)
    /\ UNCHANGED <<doc, tree, argv, folderVars>>

NextCLI == BankStatementCLI_run

SpecCLI == InitCLI /\ [][NextCLI]_vars

----------------------------------------------------------------------------
(* process_camt053_folder, bank_statement_parsers.py.  An entry of the     *)
(* folder is [FileName, isfile, file]: a name of os.listdir(folder),       *)
(* os.path.isfile of its path, and the file (of a regular file).           *)

MaxFiles == 2

FileNames == <<"a.xml", "b.xml", "c.xml", "d.xml">>

\* The largest well-formed CAMT.053 file of the model.
FullStmts == BaseStmts([s \in 1..MaxStmts |-> MaxEntries])

\* Files Camt053Parser makes records of.
GoodFiles ==
    { File("xml", CamtNs, <<>>, <<>>, FullStmts),
      File("xml", NoNs, <<>>, <<>>, BaseStmts(<< 1 >>)),
      File("xml", CamtNs, <<>>, <<>>, BaseStmts(<< 0 >>)) }

\* Files Camt053Parser fails on: no XML, no statement, a statement without
\* account id, a last entry with an amount that is no number, a first entry
\* with a Ustrd without text, the namespace of a later version, a Pain.001
\* file.
BadFiles ==
    { File("text", NoNs, <<>>, <<>>, <<>>),
      File("xml", CamtNs, <<>>, <<>>, <<>>),
      File("xml", CamtNs, <<>>, <<>>, [FullStmts EXCEPT ![1].AcctId = <<>>]),
      File("xml", CamtNs, <<>>, <<>>,
           [FullStmts EXCEPT ![MaxStmts].Ntry[MaxEntries].Amt = << Amt("abc", <<"EUR">>) >>]),
      File("xml", CamtNs, <<>>, <<>>, [FullStmts EXCEPT ![1].Ntry[1].Ustrd = << None >>]),
      File("xml", CamtNsLater, <<>>, <<>>, FullStmts),
      File("xml", PainNs, BaseGrpHdr, BasePmtInf(<< 1 >>), <<>>) }

\* What a name of the folder can be: a regular file, or a directory.
FolderEntries ==
    [isfile : {TRUE}, file : GoodFiles \cup BadFiles] \cup
    { [isfile |-> FALSE, file |-> File("missing", NoNs, <<>>, <<>>, <<>>)] }

\* The classes of the exceptions of the model that derive from Exception.
ExceptionClasses ==
    { "FileNotFoundError", "FileParserError", "XMLSyntaxError", "AttributeError",
      "IndexError", "TypeError", "ValueError", "OSError", "ParseError" }

\* A handler except FileParserError in place of except Exception.
except_FileParserError(e) == e.exc = "FileParserError"

\* except Exception as e
except_Exception(e) == e.exc \in ExceptionClasses

\* str(e) for the exceptions Camt053Parser raises.
str(e) ==
    CASE e.exc = "FileNotFoundError" -> "File not found!"
      [] e.exc = "FileParserError" /\ e.at = 234 -> "Not a valid CAMT.053 file"
      [] e.exc = "FileParserError" /\ e.at = 239 ->
            "No statements found in the CAMT.053 file"
      [] e.exc = "AttributeError" -> "'NoneType' object has no attribute 'xpath'"
      [] e.exc = "IndexError" -> "list index out of range"
      [] e.exc = "TypeError" /\ e.at = 366 ->
            "sequence item 0: expected str instance, NoneType found"
      [] e.exc = "TypeError" ->
            "float() argument must be a string or a real number, not 'NoneType'"
      [] e.exc = "ValueError" -> "could not convert string to float: 'abc'"
      [] OTHER -> e.exc

InitFolder ==
    /\ doc = File("missing", NoNs, <<>>, <<>>, <<>>)
    /\ tree = Unset
    /\ op = "none"
    /\ out = Return(<<>>)
    /\ NoCli
    /\ \E n \in 0..MaxFiles : \E es \in [1..n -> FolderEntries] :
          folder = [i \in 1..n |-> [FileName |-> Pick(FileNames, i),
                                    isfile   |-> es[i].isfile,
                                    file     |-> es[i].file]]
    /\ file_index = 0
    /\ files_df = <<>>
    /\ statements_df = <<>>
    /\ transactions_df = <<>>
    /\ ended = "no"

\* ProcessFile with statements_df = pd.DataFrame(statement_rows) and
\* transactions_df = pd.DataFrame(transaction_rows) in place of the pd.concat.
ProcessFile_assign ==
    /\ ended = "no"
    /\ file_index < Len(folder)
    /\ file_index' = file_index + 1
    /\ LET entry == folder[file_index + 1]
       IN  IF ~entry.isfile
           THEN UNCHANGED <<files_df, statements_df, transactions_df, ended>>
           ELSE \E parsed \in fromstring(replace(entry.file, CamtNs), 232) :
                   LET parser == Camt053Parser(entry.file, parsed)
                   IN  IF ~Raised(parser)
                       THEN /\ statements_df' = parser.val.statements
                            /\ transactions_df' = parser.val.transactions
                            /\ files_df' = Append(files_df,
                                              [FileName |-> entry.FileName,
                                               Status   |-> "Success"])
                            /\ ended' = ended
                       ELSE IF except_Exception(parser)
                       THEN /\ files_df' = Append(files_df,
                                              [FileName |-> entry.FileName,
                                               Status   |-> "Failed: " \o str(parser)])
                            /\ UNCHANGED <<statements_df, transactions_df, ended>>
                       ELSE /\ ended' = "raised"
                            /\ UNCHANGED <<files_df, statements_df, transactions_df>>
    /\ UNCHANGED <<doc, tree, op, out, cliVars, folder>>

\* One turn of the loop of process_camt053_folder.
ProcessFile ==
    /\ ended = "no"
    /\ file_index < Len(folder)
    /\ file_index' = file_index + 1
    /\ LET entry == folder[file_index + 1]
       IN  IF ~entry.isfile
           THEN UNCHANGED <<files_df, statements_df, transactions_df, ended>>
           ELSE \E parsed \in fromstring(replace(entry.file, CamtNs), 232) :
                   LET parser == Camt053Parser(entry.file, parsed)
                   IN  IF ~Raised(parser)
                       THEN /\ statements_df' = statements_df \o parser.val.statements
                            /\ transactions_df' = transactions_df \o parser.val.transactions
                            /\ files_df' = Append(files_df,
                                              [FileName |-> entry.FileName,
                                               Status   |-> "Success"])
                            /\ ended' = ended
                       ELSE IF except_Exception(parser)
                       THEN /\ files_df' = Append(files_df,
                                              [FileName |-> entry.FileName,
                                               Status   |-> "Failed: " \o str(parser)])
                            /\ UNCHANGED <<statements_df, transactions_df, ended>>
                       ELSE /\ ended' = "raised"
                            /\ UNCHANGED <<files_df, statements_df, transactions_df>>
    /\ UNCHANGED <<doc, tree, op, out, cliVars, folder>>

\* The loop is over: return files_df, statements_df, transactions_df.
ReturnTables ==
    /\ ended = "no"
    /\ file_index = Len(folder)
    /\ ended' = "returned"
    /\ UNCHANGED <<doc, tree, op, out, cliVars, folder, file_index, files_df,
                   statements_df, transactions_df>>

NextFolder == ProcessFile \/ ReturnTables

SpecFolder == InitFolder /\ [][NextFolder]_vars

----------------------------------------------------------------------------
(* What the claims speak of, stated on the file and not taken from the     *)
(* parsers.                                                                *)

\* The texts float() makes a number of, and the number (in hundredths).
NumericTexts ==
    {"150.00", "200.00", "100.00", "40.00", "25.50", "7.00", "0.00", "-5.00"}

Hundredths(text) ==
    CASE text = "150.00" -> 15000 [] text = "200.00" -> 20000
      [] text = "100.00" -> 10000 [] text = "40.00" -> 4000
      [] text = "25.50" -> 2550   [] text = "7.00" -> 700
      [] text = "0.00" -> 0       [] text = "-5.00" -> -500

Abs(n) == IF n < 0 THEN -n ELSE n

\* The places <<i, j>> of the j-th child of the i-th parent, in document
\* order, sizes[i] being the number of children of the i-th parent.
RECURSIVE SlotsFrom(_, _, _)
SlotsFrom(sizes, i, j) ==
    IF i > Len(sizes) THEN <<>>
    ELSE IF j > sizes[i] THEN SlotsFrom(sizes, i + 1, 1)
    ELSE << <<i, j>> >> \o SlotsFrom(sizes, i, j + 1)

PaymentSlots == SlotsFrom([i \in 1..Len(doc.PmtInf) |-> Len(doc.PmtInf[i].CdtTrfTxInf)], 1, 1)

\* The Stmt elements of a CAMT.053 file in the namespace the CAMT parsers
\* name, or in none: the statements the claims on the contents of the CAMT
\* records are about.
CamtStmts == IF doc.xmlns \in {NoNs, CamtNs} THEN doc.Stmt ELSE <<>>

EntrySlots == SlotsFrom([s \in 1..Len(CamtStmts) |-> Len(CamtStmts[s].Ntry)], 1, 1)
BalSlots == SlotsFrom([s \in 1..Len(CamtStmts) |-> Len(CamtStmts[s].Bal)], 1, 1)

\* An account identifier as the schema allows it: at most one of IBAN, Othr.
OneId(ids) == Len(ids) <= 1
NoBlank(texts) == \A i \in 1..Len(texts) : texts[i] # None

AmtWellFormed(amts) ==
    /\ Len(amts) = 1
    /\ amts[1].text \in NumericTexts
    /\ Len(amts[1].Ccy) = 1

ValidPayment(p) ==
    /\ AmtWellFormed(p.InstdAmt)
    /\ Len(p.CdtrNm) = 1 /\ NoBlank(p.CdtrNm)
    /\ OneId(p.CdtrAcct)
    /\ NoBlank(p.Ctry) /\ NoBlank(p.Ustrd) /\ NoBlank(p.AdrLine)

ValidBatch(b) ==
    /\ Len(b.ReqdExctnDt) = 1 /\ NoBlank(b.ReqdExctnDt)
    /\ Len(b.DbtrNm) = 1 /\ NoBlank(b.DbtrNm)
    /\ OneId(b.DbtrAcct)
    /\ \A j \in 1..Len(b.CdtTrfTxInf) : ValidPayment(b.CdtTrfTxInf[j])

\* A valid Pain.001 document.
ValidPain ==
    /\ doc.kind = "xml"
    /\ \A i \in 1..Len(doc.PmtInf) : ValidBatch(doc.PmtInf[i])

Returned(name) == op = name /\ ~Raised(out)

----------------------------------------------------------------------------
\* C1: for a valid Pain.001 document with B PmtInf batches, batch i holding
\* n_i CdtTrfTxInf, Pain001Parser ends with batches_count = B and
\* total_payments_count = len(payments) = sum(n_i), and the debtor_name,
\* debtor_account and execution_date of every payment are those of the
\* header of the batch that contains it.
C1_PaymentsOfBatches ==
    (op = "Pain001Parser" /\ ValidPain) =>
        /\ ~Raised(out)
        /\ out.val.batches_count = Len(doc.PmtInf)
        /\ out.val.total_payments_count = Len(PaymentSlots)
        /\ Len(out.val.payments) = Len(PaymentSlots)
        /\ \A g \in 1..Len(PaymentSlots) :
              LET batch == doc.PmtInf[PaymentSlots[g][1]]
                  payment == out.val.payments[g]
              IN  /\ payment.debtor_name = batch.DbtrNm[1]
                  /\ payment.execution_date = batch.ReqdExctnDt[1]
                  /\ payment.debtor_account =
                        IF batch.DbtrAcct = <<>> THEN "" ELSE batch.DbtrAcct[1].text

\* A valid document of two batches with payments, parsed.
C1_Witness ==
    /\ Returned("Pain001Parser")
    /\ ValidPain
    /\ Len(doc.PmtInf) = 2
    /\ Len(doc.PmtInf[1].CdtTrfTxInf) = 2
    /\ Len(doc.PmtInf[2].CdtTrfTxInf) = 1
    /\ doc.PmtInf[1].DbtrAcct = <<>>
    /\ out.val.total_payments_count = 3
    /\ out.val.payments[3].debtor_name = "Debtor Two"

----------------------------------------------------------------------------
\* The entry, the balance and the payment at a place of the file.
EntryAt(slot) == doc.Stmt[slot[1]].Ntry[slot[2]]
BalAt(slot) == doc.Stmt[slot[1]].Bal[slot[2]]
PaymentAt(slot) == doc.PmtInf[slot[1]].CdtTrfTxInf[slot[2]]

\* stored is raw with the sign convention of the indicator ind applied: of
\* the magnitude of raw, not positive for a debit and not negative for a
\* credit when raw >= 0.
SignFlipped(raw, ind, stored) ==
    /\ Abs(stored) = Abs(raw)
    /\ raw >= 0 =>
          /\ ind = "DBIT" => stored <= 0
          /\ ind = "CRDT" => stored >= 0

\* The keys of a Camt053Parser statement record that hold no balance.
SummaryKeys == {"NumTransactions", "TotalAmount"}

\* The b-th Bal of the statement is the last one of its type code.
LastOfCode(stmt, b) ==
    \A c \in (b + 1)..Len(stmt.Bal) : stmt.Bal[c].Cd # stmt.Bal[b].Cd

\* C2: sign-flip invariant.  In every Balance and every Transaction that
\* Camt053Parser, CamtParser.get_transactions or
\* CamtParser.get_account_balances produce, the stored amount has the
\* magnitude of the raw amount, and for a raw amount >= 0 it is <= 0 under
\* the indicator DBIT and >= 0 under the indicator CRDT.
C2_SignFlip ==
    /\ Returned("Camt053Parser") =>
          /\ Len(out.val.transactions) = Len(EntrySlots)
          /\ \A g \in 1..Len(EntrySlots) :
                SignFlipped(Hundredths(EntryAt(EntrySlots[g]).Amt[1].text),
                            EntryAt(EntrySlots[g]).CdtDbtInd[1],
                            out.val.transactions[g].Amount)
          /\ Len(out.val.statements) = Len(doc.Stmt)
          /\ \A s \in 1..Len(doc.Stmt) : \A b \in 1..Len(doc.Stmt[s].Bal) :
                LET bal == doc.Stmt[s].Bal[b]
                IN  (LastOfCode(doc.Stmt[s], b) /\ bal.Cd[1] \notin SummaryKeys) =>
                        SignFlipped(Hundredths(bal.Amt[1].text), bal.CdtDbtInd[1],
                                    out.val.statements[s][bal.Cd[1]].Amount)
    /\ Returned("get_transactions") =>
          /\ Len(out.val) = Len(EntrySlots)
          /\ \A g \in 1..Len(EntrySlots) :
                SignFlipped(Hundredths(EntryAt(EntrySlots[g]).Amt[1].text),
                            EntryAt(EntrySlots[g]).CdtDbtInd[1],
                            out.val[g].Amount)
    /\ Returned("get_account_balances") =>
          /\ Len(out.val) = Len(BalSlots)
          /\ \A g \in 1..Len(BalSlots) :
                SignFlipped(Hundredths(BalAt(BalSlots[g]).Amt[1].text),
                            BalAt(BalSlots[g]).CdtDbtInd[1],
                            out.val[g].Amount)

\* A debit entry of 40.00 stored as -40.00 beside a credit entry of 100.00
\* stored as 100.00, and a debit balance of 150.00 stored as -150.00.
C2_Witness ==
    /\ Returned("Camt053Parser")
    /\ Len(doc.Stmt) = 1 /\ Len(doc.Stmt[1].Ntry) = 2
    /\ doc.Stmt[1].Ntry[2].CdtDbtInd = << "DBIT" >>
    /\ doc.Stmt[1].Ntry[2].Amt = << Amt("40.00", <<"EUR">>) >>
    /\ out.val.transactions[2].Amount = -4000
    /\ out.val.transactions[1].Amount = 10000
    /\ Len(doc.Stmt[1].Bal) = 2
    /\ doc.Stmt[1].Bal[2].Cd = << "CLBD" >>
    /\ doc.Stmt[1].Bal[2].CdtDbtInd = << "DBIT" >>
    /\ out.val.statements[1]["CLBD"].Amount = -15000

----------------------------------------------------------------------------
\* A CAMT.053 document (an XML file) without any Stmt element.
NoStmt == doc.kind = "xml" /\ doc.Stmt = <<>>

\* The CAMT extraction operations.
CamtExtractions ==
    {"Camt053Parser", "get_account_balances", "get_transactions", "get_statement_stats"}

\* C3: a CAMT.053 document without Stmt elements makes every CAMT extraction
\* operation fail with FileParserError; none returns a record set for it.
C3_NoStmtIsFormatError ==
    (NoStmt /\ op \in CamtExtractions) => out.exc = "FileParserError"

----------------------------------------------------------------------------
\* The sum of the signed amounts of the entries of a statement.
RECURSIVE NetOf(_)
NetOf(entries) ==
    IF entries = <<>> THEN 0
    ELSE LET raw == Hundredths(entries[1].Amt[1].text)
         IN  (IF entries[1].CdtDbtInd[1] = "DBIT" THEN -raw ELSE raw)
                 + NetOf(Tail(entries))

\* C4: for every statement of a file, NumTransactions is the number of the
\* statement's own Ntry entries and the net amount (TotalAmount of
\* Camt053Parser, NetAmount of CamtParser) is the sum of the signed amounts
\* of exactly those entries.
C4_StatementSummary ==
    /\ Returned("Camt053Parser") =>
          /\ Len(out.val.statements) = Len(doc.Stmt)
          /\ \A s \in 1..Len(doc.Stmt) :
                /\ out.val.statements[s].NumTransactions = Len(doc.Stmt[s].Ntry)
                /\ out.val.statements[s].TotalAmount = NetOf(doc.Stmt[s].Ntry)
    /\ Returned("get_statement_stats") =>
          /\ Len(out.val) = Len(CamtStmts)
          /\ \A s \in 1..Len(CamtStmts) :
                /\ out.val[s].NumTransactions = Len(CamtStmts[s].Ntry)
                /\ out.val[s].NetAmount = NetOf(CamtStmts[s].Ntry)

\* A credit of 100.00 and a debit of 40.00 in the first statement: 2 and
\* 60.00, beside a second statement with entries and a net amount of its own.
C4_Witness ==
    /\ Returned("get_statement_stats")
    /\ Len(doc.Stmt) = 2
    /\ Len(doc.Stmt[1].Ntry) = 2
    /\ doc.Stmt[1].Ntry[1].Amt = << Amt("100.00", <<"EUR">>) >>
    /\ doc.Stmt[1].Ntry[1].CdtDbtInd = << "CRDT" >>
    /\ doc.Stmt[1].Ntry[2].Amt = << Amt("40.00", <<"EUR">>) >>
    /\ doc.Stmt[1].Ntry[2].CdtDbtInd = << "DBIT" >>
    /\ Len(out.val) = 2
    /\ out.val[1].NumTransactions = 2
    /\ out.val[1].NetAmount = 6000
    /\ Len(doc.Stmt[2].Ntry) = 1
    /\ out.val[2].NumTransactions = 1
    /\ out.val[2].NetAmount = 2550

----------------------------------------------------------------------------
\* An amount element that is missing, has no Ccy attribute, or whose text
\* is no number.
BadAmt(amts) ==
    \/ amts = <<>>
    \/ amts[1].Ccy = <<>>
    \/ amts[1].text \notin NumericTexts

\* Some batch or payment of the file has a required field (ReqdExctnDt,
\* Dbtr/Nm; InstdAmt, its Ccy, Cdtr/Nm) missing or malformed.
PainBroken ==
    \E i \in 1..Len(doc.PmtInf) :
        LET b == doc.PmtInf[i]
        IN  \/ b.ReqdExctnDt = <<>>
            \/ b.DbtrNm = <<>>
            \/ \E j \in 1..Len(b.CdtTrfTxInf) :
                  \/ BadAmt(b.CdtTrfTxInf[j].InstdAmt)
                  \/ b.CdtTrfTxInf[j].CdtrNm = <<>>

\* An entry with a required field (Amt, its Ccy, CdtDbtInd) missing or
\* malformed.
BadEntry(e) == BadAmt(e.Amt) \/ e.CdtDbtInd = <<>>

\* A balance with a field Camt053Parser requires (Cd, Amt, CdtDbtInd)
\* missing or malformed.
BadBal(bal) ==
    \/ bal.Cd = <<>>
    \/ bal.Amt = <<>>
    \/ bal.Amt[1].text \notin NumericTexts
    \/ bal.CdtDbtInd = <<>>

\* Some statement, balance or entry of the file has a required field
\* missing or malformed.
CamtBroken ==
    \E s \in 1..Len(doc.Stmt) :
        LET st == doc.Stmt[s]
        IN  \/ st.Id = <<>>
            \/ st.AcctId = <<>>
            \/ \E b \in 1..Len(st.Bal) : BadBal(st.Bal[b])
            \/ \E k \in 1..Len(st.Ntry) : BadEntry(st.Ntry[k])

\* C5: extraction is all-or-nothing per document.  When a batch, payment,
\* statement, balance or entry of the file has a required field missing or
\* malformed, the extraction call (Pain001Parser, Camt053Parser) fails with
\* an error and the caller has no records at all: the bad record is not
\* skipped and the rest returned.
C5_AllOrNothing ==
    /\ (op = "Pain001Parser" /\ doc.kind = "xml" /\ PainBroken) =>
          (Raised(out) /\ out.val = <<>>)
    /\ (op = "Camt053Parser" /\ doc.kind = "xml" /\ CamtBroken) =>
          (Raised(out) /\ out.val = <<>>)

\* The last payment of the last batch has a non-numeric amount, three good
\* payments come before it, and the call has failed with no record.
C5_Witness ==
    /\ op = "Pain001Parser"
    /\ Len(doc.PmtInf) = 2
    /\ Len(doc.PmtInf[1].CdtTrfTxInf) = 2
    /\ Len(doc.PmtInf[2].CdtTrfTxInf) = 2
    /\ doc.PmtInf[2].CdtTrfTxInf[2].InstdAmt = << Amt("abc", <<"EUR">>) >>
    /\ Raised(out)
    /\ out.val = <<>>

----------------------------------------------------------------------------
\* A required field of the claim's list is absent among what the call made
\* last reports: for Pain001Parser ReqdExctnDt, Dbtr/Nm, InstdAmt, Ccy,
\* Cdtr/Nm; for Camt053Parser the statement Id, the account id, and an
\* entry's Amt, Ccy, CdtDbtInd; for the CamtParser methods the account id
\* they report as AccountId and, where they read entries, the entry fields.
AmtAbsent(amts) == amts = <<>> \/ amts[1].Ccy = <<>>

EntryFieldAbsent ==
    \E s \in 1..Len(doc.Stmt) : \E k \in 1..Len(doc.Stmt[s].Ntry) :
        \/ AmtAbsent(doc.Stmt[s].Ntry[k].Amt)
        \/ doc.Stmt[s].Ntry[k].CdtDbtInd = <<>>

AccountIdAbsent == \E s \in 1..Len(doc.Stmt) : doc.Stmt[s].AcctId = <<>>

RequiredAbsent ==
    /\ doc.kind = "xml"
    /\ \/ /\ op = "Pain001Parser"
          /\ \E i \in 1..Len(doc.PmtInf) :
                \/ doc.PmtInf[i].ReqdExctnDt = <<>>
                \/ doc.PmtInf[i].DbtrNm = <<>>
                \/ \E j \in 1..Len(doc.PmtInf[i].CdtTrfTxInf) :
                      \/ AmtAbsent(doc.PmtInf[i].CdtTrfTxInf[j].InstdAmt)
                      \/ doc.PmtInf[i].CdtTrfTxInf[j].CdtrNm = <<>>
       \/ /\ op = "Camt053Parser"
          /\ \/ \E s \in 1..Len(doc.Stmt) : doc.Stmt[s].Id = <<>>
             \/ AccountIdAbsent
             \/ EntryFieldAbsent
       \/ /\ op = "get_account_balances"
          /\ AccountIdAbsent
       \/ /\ op \in {"get_transactions", "get_statement_stats"}
          /\ AccountIdAbsent \/ EntryFieldAbsent

\* C6: an absent schema-required field always makes the extraction fail; no
\* extractor puts a placeholder such as the empty string in its place and
\* goes on.
C6_RequiredAbsentFails == RequiredAbsent => Raised(out)

----------------------------------------------------------------------------
\* The lines of the two ' '.join(...) of Pain001Parser._parse_payment and of
\* the one of Camt053Parser._parse_transaction.
JoinLines == {158, 160, 366}

\* A Ustrd or AdrLine element that is present and has no text.
BlankLine ==
    \/ \E i \in 1..Len(doc.PmtInf) : \E j \in 1..Len(doc.PmtInf[i].CdtTrfTxInf) :
          \/ ~NoBlank(doc.PmtInf[i].CdtTrfTxInf[j].Ustrd)
          \/ ~NoBlank(doc.PmtInf[i].CdtTrfTxInf[j].AdrLine)
    \/ \E s \in 1..Len(doc.Stmt) : \E k \in 1..Len(doc.Stmt[s].Ntry) :
          ~NoBlank(doc.Stmt[s].Ntry[k].Ustrd)

\* field = "" whenever no element of the node list is there.
Defaulted(nodes, field) == nodes = <<>> => field = ""

\* C7: missing optional fields never raise and resolve to their default.
\* In whatever Pain001Parser, Camt053Parser and CamtParser.get_transactions
\* return, the field of an absent Ctry, AdrLine, RmtInf/Ustrd, creditor or
\* debtor account, debtor or creditor name or Acct/Nm is the empty string;
\* and with every required field present and well-formed these calls raise
\* only where a Ustrd or AdrLine element that is present has no text to
\* join, never for an element that is absent.
C7_OptionalDefaults ==
    /\ Returned("Pain001Parser") =>
          /\ Len(out.val.payments) = Len(PaymentSlots)
          /\ \A g \in 1..Len(PaymentSlots) :
                LET p == PaymentAt(PaymentSlots[g])
                    b == doc.PmtInf[PaymentSlots[g][1]]
                    r == out.val.payments[g]
                IN  /\ Defaulted(p.Ctry, r.Country)
                    /\ Defaulted(p.AdrLine, r.Address)
                    /\ Defaulted(p.Ustrd, r.Reference)
                    /\ Defaulted(p.CdtrAcct, r.CreditorAccount)
                    /\ Defaulted(b.DbtrAcct, r.debtor_account)
    /\ Returned("Camt053Parser") =>
          /\ Len(out.val.transactions) = Len(EntrySlots)
          /\ \A g \in 1..Len(EntrySlots) :
                LET e == EntryAt(EntrySlots[g])
                    r == out.val.transactions[g]
                IN  /\ Defaulted(e.DbtrNm, r.DebtorName)
                    /\ Defaulted(e.DbtrAcct, r.DebtorAccount)
                    /\ Defaulted(e.CdtrNm, r.CreditorName)
                    /\ Defaulted(e.CdtrAcct, r.CreditorAccount)
                    /\ Defaulted(e.Ustrd, r.Reference)
          /\ Len(out.val.statements) = Len(doc.Stmt)
          /\ \A s \in 1..Len(doc.Stmt) :
                Defaulted(doc.Stmt[s].AcctNm, out.val.statements[s].AccountName)
    /\ Returned("get_transactions") =>
          /\ Len(out.val) = Len(EntrySlots)
          /\ \A g \in 1..Len(EntrySlots) :
                LET e == EntryAt(EntrySlots[g])
                    r == out.val[g]
                IN  /\ Defaulted(e.DbtrNm, r.Debtor)
                    /\ Defaulted(e.CdtrNm, r.Creditor)
                    /\ Defaulted(e.Ustrd, r.Reference)
    /\ ( /\ doc.kind = "xml"
         /\ Raised(out)
         /\ \/ op = "Pain001Parser" /\ ~PainBroken
            \/ op = "Camt053Parser" /\ ~CamtBroken /\ CamtStmts # <<>>
            \/ op = "get_transactions" /\ ~CamtBroken ) =>
          /\ out.exc = "TypeError"
          /\ out.at \in JoinLines
          /\ BlankLine

\* A payment without Ctry, parsed with Country = "".
C7_Witness ==
    /\ Returned("Pain001Parser")
    /\ Len(doc.PmtInf) = 1
    /\ Len(doc.PmtInf[1].CdtTrfTxInf) = 2
    /\ doc.PmtInf[1].CdtTrfTxInf[2].Ctry = <<>>
    /\ out.val.payments[2].Country = ""
    /\ out.val.payments[1].Country = "DE"

----------------------------------------------------------------------------
\* An amount element holding text that is no number.
NonNumeric(amts) ==
    amts # <<>> /\ amts[1].text # None /\ amts[1].text \notin NumericTexts

NonNumericInstdAmt ==
    \E i \in 1..Len(doc.PmtInf) : \E j \in 1..Len(doc.PmtInf[i].CdtTrfTxInf) :
        NonNumeric(doc.PmtInf[i].CdtTrfTxInf[j].InstdAmt)

NonNumericBalAmt ==
    \E s \in 1..Len(doc.Stmt) : \E b \in 1..Len(doc.Stmt[s].Bal) :
        NonNumeric(doc.Stmt[s].Bal[b].Amt)

NonNumericEntryAmt ==
    \E s \in 1..Len(doc.Stmt) : \E k \in 1..Len(doc.Stmt[s].Ntry) :
        NonNumeric(doc.Stmt[s].Ntry[k].Amt)

\* The call made last reads an amount element that holds non-numeric text.
ReadsNonNumeric ==
    /\ doc.kind = "xml"
    /\ \/ op = "Pain001Parser" /\ NonNumericInstdAmt
       \/ op = "Camt053Parser" /\ (NonNumericBalAmt \/ NonNumericEntryAmt)
       \/ op = "get_account_balances" /\ NonNumericBalAmt
       \/ op \in {"get_transactions", "get_statement_stats"} /\ NonNumericEntryAmt

\* C8: when an amount element (InstdAmt, balance Amt, entry Amt) holds
\* non-numeric text, extraction fails with FileParserError, and with no
\* other exception.
C8_NonNumericIsFormatError == ReadsNonNumeric => out.exc = "FileParserError"

----------------------------------------------------------------------------
\* The loaders: the constructors of the three parsers.
Loaders == {"Pain001Parser", "Camt053Parser", "CamtParser"}

\* C9: when the content of the file cannot be parsed into a tree (no XML,
\* or nothing at all), loading fails with FileParserError: no parser object
\* is returned and no other exception is raised.
C9_UnparseableIsFormatError ==
    (doc.kind \in {"empty", "text"} /\ op \in Loaders) => out.exc = "FileParserError"

----------------------------------------------------------------------------
\* date is None whenever no date element is there.
AbsentMarked(nodes, date) == nodes = <<>> => date = None

\* C10: the value date and the booking date of an entry whose nested date
\* element is absent are None, never the empty string, in what Camt053Parser
\* and CamtParser.get_transactions return.
C10_AbsentDateIsNone ==
    /\ Returned("Camt053Parser") =>
          /\ Len(out.val.transactions) = Len(EntrySlots)
          /\ \A g \in 1..Len(EntrySlots) :
                /\ AbsentMarked(EntryAt(EntrySlots[g]).ValDt,
                                out.val.transactions[g].ValueDate)
                /\ AbsentMarked(EntryAt(EntrySlots[g]).BookgDt,
                                out.val.transactions[g].BookingDate)
    /\ Returned("get_transactions") =>
          /\ Len(out.val) = Len(EntrySlots)
          /\ \A g \in 1..Len(EntrySlots) :
                /\ AbsentMarked(EntryAt(EntrySlots[g]).ValDt, out.val[g].ValDt)
                /\ AbsentMarked(EntryAt(EntrySlots[g]).BookgDt, out.val[g].BookgDt)

----------------------------------------------------------------------------
\* The balance type codes of the two implementations together.
SupersetCodes == {"OPBD", "CLBD", "CLAV", "PRCD", "FWAV"}

\* The description the record of the statement holds for the balance bal,
\* in what Camt053Parser returned: None when the record has no balance
\* under the code.
DescriptionIn(record, bal) ==
    IF bal.Cd[1] \in DOMAIN record /\ bal.Cd[1] \notin SummaryKeys
    THEN record[bal.Cd[1]].Description ELSE None

\* C11: each of the balance type codes OPBD, CLBD, CLAV, PRCD and FWAV
\* resolves to a description of its own and never to "Unknown code", in
\* what Camt053Parser returns and in what CamtParser.get_account_balances
\* returns.
C11_SupersetOfCodes ==
    /\ Returned("Camt053Parser") =>
          \A s \in 1..Len(doc.Stmt) : \A b \in 1..Len(doc.Stmt[s].Bal) :
              doc.Stmt[s].Bal[b].Cd[1] \in SupersetCodes =>
                  DescriptionIn(out.val.statements[s], doc.Stmt[s].Bal[b])
                      \notin {"Unknown code", None}
    /\ Returned("get_account_balances") =>
          \A g \in 1..Len(out.val) :
              out.val[g].Code \in SupersetCodes =>
                  out.val[g].Description # "Unknown code"

----------------------------------------------------------------------------
\* A code none of the two mappings knows.
Unrecognized(code) == code # None /\ code \notin SupersetCodes

UnrecognizedBal ==
    \E s \in 1..Len(doc.Stmt) : \E b \in 1..Len(doc.Stmt[s].Bal) :
        /\ doc.Stmt[s].Bal[b].Cd # <<>>
        /\ Unrecognized(doc.Stmt[s].Bal[b].Cd[1])

----------------------------------------------------------------------------
\* The root of the file declares a default namespace of its message schema,
\* of whatever version.
DeclaresNs == doc.kind = "xml" /\ doc.xmlns # NoNs

\* C13: namespace normalization makes the unqualified lookups match whatever
\* the version of the schema.  For a file whose root declares the default
\* namespace of any version of its message schema, Pain001Parser finds the
\* PmtInf elements of the file and Camt053Parser its Stmt elements (it does
\* not find the file to be without statements); and for a file without
\* namespace declaration the normalization leaves the text as it is.
C13_NamespaceNormalized ==
    /\ (Returned("Pain001Parser") /\ DeclaresNs) =>
          out.val.batches_count = Len(doc.PmtInf)
    /\ (op = "Camt053Parser" /\ DeclaresNs /\ doc.Stmt # <<>>) =>
          ~(out.exc = "FileParserError" /\ out.at = 239)
    /\ (doc.kind = "xml" /\ doc.xmlns = NoNs) =>
          /\ sub_Document(doc) = doc
          /\ replace(doc, CamtNs) = doc

----------------------------------------------------------------------------
\* C15: the exit status of cli.py.  For --type camt and for --type pain001,
\* the process ends with the status 0 when the command line is accepted, the
\* input file exists and the parser, the extraction and the output all
\* succeed, and with a status other than 0 on every failure: no arguments, a
\* command line argparse refuses, no input file, the parser raising, the
\* extraction raising, the output raising.
C15_ExitStatus ==
    status.done =>
        (status.code = 0 <=>
            /\ argv.given
            /\ argv.valid
            /\ doc.kind # "missing"
            /\ ~Raised(out))

\* --type camt with --output on a file of two statements: the statistics of
\* the two statements written, and the status 0.
C15_Witness ==
    /\ status.done
    /\ argv.given /\ argv.valid /\ argv.type = "camt" /\ argv.output = "out.csv"
    /\ doc.xmlns = CamtNs
    /\ Len(doc.Stmt) = 2
    /\ ~CamtBroken
    /\ status.code = 0
    /\ ~Raised(out)
    /\ Len(out.val) = 2

----------------------------------------------------------------------------
\* The regular files among the first n entries of the folder, in order.
RECURSIVE RegularFiles(_)
RegularFiles(n) ==
    IF n = 0 THEN <<>>
    ELSE IF folder[n].isfile THEN Append(RegularFiles(n - 1), folder[n])
    ELSE RegularFiles(n - 1)

\* The reasons a file can fail for.
Reasons ==
    { "Not a valid CAMT.053 file", "No statements found in the CAMT.053 file",
      "'NoneType' object has no attribute 'xpath'", "list index out of range",
      "sequence item 0: expected str instance, NoneType found",
      "could not convert string to float: 'abc'" }

\* C16: process_camt053_folder catches every failure of a file and goes on
\* with the next one, recording its reason.  Whatever the files of the
\* folder and whichever of them fail, the driver never raises, every regular
\* file the loop has passed has its row in files_df, the row of a file
\* Camt053Parser fails on says 'Failed: ' with the reason, and the driver
\* returns only after the last entry.
C16_FolderGoesOn ==
    /\ ended # "raised"
    /\ file_index <= Len(folder)
    /\ Len(files_df) = Len(RegularFiles(file_index))
    /\ \A r \in 1..Len(files_df) :
          LET entry == RegularFiles(file_index)[r]
          IN  /\ files_df[r].FileName = entry.FileName
              /\ entry.file \in BadFiles =>
                    files_df[r].Status \in { "Failed: " \o m : m \in Reasons }
    /\ ended = "returned" => file_index = Len(folder)

\* A folder whose first file is no XML and whose second is well-formed: the
\* first has failed, the second has been read.
C16_Witness ==
    /\ ended = "returned"
    /\ Len(folder) = 2
    /\ folder[1].isfile /\ folder[1].file.kind = "text"
    /\ folder[2].isfile /\ folder[2].file \in GoodFiles
    /\ Len(files_df) = 2
    /\ files_df[1].Status # "Success"
    /\ files_df[2].Status = "Success"
    /\ statements_df # <<>>

----------------------------------------------------------------------------
\* The keys of the records, and those of them that hold a number.
PaymentKeys ==
    { "Name", "Amount", "Currency", "Reference", "CreditorAccount", "Country",
      "Address", "debtor_name", "debtor_account", "execution_date" }
TransactionKeys ==
    { "DebtorName", "DebtorAccount", "CreditorName", "CreditorAccount", "Amount",
      "Currency", "CreditDebit", "Reference", "ValueDate", "BookingDate",
      "StatementId" }
TxRowKeys ==
    { "Amount", "Currency", "DrCr", "Debtor", "Creditor", "Reference", "ValDt",
      "BookgDt", "AccountId" }
BalRowKeys ==
    { "Amount", "Currency", "Code", "Description", "DrCr", "Date", "AccountId" }
StatRowKeys == { "AccountId", "StatementCreated", "NumTransactions", "NetAmount" }
NumberKeys == { "Amount", "NumTransactions", "NetAmount", "TotalAmount" }
HeaderKeys == { "StatementId", "AccountId", "AccountName" }

\* A record of plain data with the given keys: a number under the number
\* keys, a text (or the None marker) under the others.
PlainRecord(r, keys) ==
    /\ DOMAIN r = keys
    /\ \A k \in keys : IF k \in NumberKeys THEN r[k] \in Int ELSE r[k] \in STRING

PlainRows(rows, keys) == \A g \in 1..Len(rows) : PlainRecord(rows[g], keys)

\* The balance type codes of a statement.
CodesOf(stmt) == { stmt.Bal[b].Cd[1] : b \in 1..Len(stmt.Bal) }

\* A statement record of Camt053Parser of plain data: numbers under the
\* summary keys, a balance (a number and a text) under the codes of the
\* statement, texts under the header keys.
PlainStatement(r, stmt) ==
    /\ DOMAIN r = HeaderKeys \cup SummaryKeys \cup CodesOf(stmt)
    /\ \A k \in DOMAIN r :
          IF k \in SummaryKeys THEN r[k] \in Int
          ELSE IF k \in CodesOf(stmt)
          THEN /\ DOMAIN r[k] = { "Amount", "Description" }
               /\ r[k].Amount \in Int
               /\ r[k].Description \in STRING
          ELSE r[k] \in STRING

----------------------------------------------------------------------------
\* The first identifier with the tag, if there is one.
RECURSIVE FirstTagged(_, _)
FirstTagged(ids, tag) ==
    IF ids = <<>> THEN <<>>
    ELSE IF ids[1].tag = tag THEN << ids[1].text >>
    ELSE FirstTagged(Tail(ids), tag)

\* The account identifier by preference: the IBAN's text if an IBAN is
\* there, else the text of Othr/Id if one is there, else the default.
Preferred(ids, default) ==
    IF FirstTagged(ids, "IBAN") # <<>> THEN FirstTagged(ids, "IBAN")[1]
    ELSE IF FirstTagged(ids, "Othr") # <<>> THEN FirstTagged(ids, "Othr")[1]
    ELSE default

\* C18: the account identifier is looked up by preference, IBAN before
\* Othr/Id.  Wherever an account offers both, in either order in the
\* document, the extracted identifier is the IBAN's text; the text of
\* Othr/Id is extracted only where there is no IBAN, and the default only
\* where there is neither: in the debtor and creditor accounts of
\* Pain001Parser and of Camt053Parser and in the AccountId of both CAMT
\* implementations.
C18_IbanBeforeOthr ==
    /\ Returned("Pain001Parser") =>
          /\ Len(out.val.payments) = Len(PaymentSlots)
          /\ \A g \in 1..Len(PaymentSlots) :
                /\ out.val.payments[g].debtor_account =
                      Preferred(doc.PmtInf[PaymentSlots[g][1]].DbtrAcct, "")
                /\ out.val.payments[g].CreditorAccount =
                      Preferred(PaymentAt(PaymentSlots[g]).CdtrAcct, "")
    /\ Returned("Camt053Parser") =>
          /\ Len(out.val.transactions) = Len(EntrySlots)
          /\ \A g \in 1..Len(EntrySlots) :
                /\ out.val.transactions[g].DebtorAccount =
                      Preferred(EntryAt(EntrySlots[g]).DbtrAcct, "")
                /\ out.val.transactions[g].CreditorAccount =
                      Preferred(EntryAt(EntrySlots[g]).CdtrAcct, "")
          /\ \A s \in 1..Len(doc.Stmt) :
                out.val.statements[s].AccountId = Preferred(doc.Stmt[s].AcctId, "")
    /\ Returned("get_statement_stats") =>
          /\ Len(out.val) = Len(CamtStmts)
          /\ \A s \in 1..Len(CamtStmts) :
                out.val[s].AccountId = Preferred(CamtStmts[s].AcctId, "")

----------------------------------------------------------------------------
\* The texts that are there: texts without its None items, in order.
RECURSIVE SkipNulls(_)
SkipNulls(texts) ==
    IF texts = <<>> THEN <<>>
    ELSE IF texts[1] = None THEN SkipNulls(Tail(texts))
    ELSE << texts[1] >> \o SkipNulls(Tail(texts))

\* C19: joining the texts of repeated elements skips the elements without
\* text.  No extraction raises at the join of the Ustrd or AdrLine texts of a
\* payment or an entry, and in whatever Pain001Parser, Camt053Parser and
\* CamtParser.get_transactions return, Reference and Address are the join,
\* with the separator of the implementation, of the texts that are there.
C19_JoinSkipsNulls ==
    /\ Raised(out) => ~(out.exc = "TypeError" /\ out.at \in JoinLines)
    /\ Returned("Pain001Parser") =>
          /\ Len(out.val.payments) = Len(PaymentSlots)
          /\ \A g \in 1..Len(PaymentSlots) :
                LET p == PaymentAt(PaymentSlots[g])
                    r == out.val.payments[g]
                IN  /\ r.Reference = JoinFrom(" ", SkipNulls(p.Ustrd), 1)
                    /\ r.Address = JoinFrom(" ", SkipNulls(p.AdrLine), 1)
    /\ Returned("Camt053Parser") =>
          /\ Len(out.val.transactions) = Len(EntrySlots)
          /\ \A g \in 1..Len(EntrySlots) :
                out.val.transactions[g].Reference =
                    JoinFrom(" ", SkipNulls(EntryAt(EntrySlots[g]).Ustrd), 1)
    /\ Returned("get_transactions") =>
          /\ Len(out.val) = Len(EntrySlots)
          /\ \A g \in 1..Len(EntrySlots) :
                out.val[g].Reference =
                    JoinFrom("", SkipNulls(EntryAt(EntrySlots[g]).Ustrd), 1)

----------------------------------------------------------------------------
\* The record r is the one of the entry at slot: its amount and its currency
\* are those the entry states.
RecordOfEntry(r, slot) ==
    LET e == EntryAt(slot)
    IN  /\ Abs(r.Amount) = Abs(float(e.Amt[1].text, 0).val)
        /\ r.Currency = e.Amt[1].Ccy[1]

\* The record r carries the text of the Id of the statement of slot.
CarriesStatementId(r, slot) ==
    /\ "StatementId" \in DOMAIN r
    /\ r.StatementId = CamtStmts[slot[1]].Id[1]

\* The transactions are those of the entries, statement after statement in
\* document order and, within a statement, entry after entry.
InDocumentOrder(transactions) ==
    /\ Len(transactions) = Len(EntrySlots)
    /\ \A g \in 1..Len(EntrySlots) : RecordOfEntry(transactions[g], EntrySlots[g])

\* C20: every CAMT.053 transaction record carries the id of its owning
\* statement.  In what Camt053Parser and CamtParser.get_transactions return
\* for a file with any number of statements, the record of every Ntry has a
\* StatementId that is the text of the Id of the Stmt the Ntry is a direct
\* child of, and the records come grouped by statement in document order,
\* the entries of a statement in document order.
C20_OwningStatement ==
    /\ Returned("Camt053Parser") =>
          /\ InDocumentOrder(out.val.transactions)
          /\ \A g \in 1..Len(EntrySlots) :
                CarriesStatementId(out.val.transactions[g], EntrySlots[g])
    /\ Returned("get_transactions") =>
          /\ InDocumentOrder(out.val)
          /\ \A g \in 1..Len(EntrySlots) :
                CarriesStatementId(out.val[g], EntrySlots[g])

----------------------------------------------------------------------------
\* a == b of Python for values of any two types: a text, a number and a dict
\* are never equal to one another.
SameValue(a, b) == ToString(a) = ToString(b)

\* The balance record that _parse_statement_balances makes of one Bal.
BalanceOf(bal) == Camt053Parser_parse_balance(bal, <<>>).val[bal.Cd[1]]

\* The statement record r holds the header, the summary and the balances of
\* stmt, each under its own key.
HoldsAll(r, stmt) ==
    LET header == _parse_statement_header(stmt).val
    IN  /\ SameValue(r["StatementId"], header.StatementId)
        /\ SameValue(r["AccountId"], header.AccountId)
        /\ SameValue(r["AccountName"], header.AccountName)
        /\ SameValue(r["NumTransactions"], Len(stmt.Ntry))
        /\ SameValue(r["TotalAmount"], NetOf(stmt.Ntry))
        /\ \A b \in 1..Len(stmt.Bal) :
              LastOfCode(stmt, b) =>
                  SameValue(r[stmt.Bal[b].Cd[1]], BalanceOf(stmt.Bal[b]))

\* C21: the flattened statement record of Camt053Parser loses nothing.
\* Whatever balance type codes a statement has, its record's StatementId,
\* AccountId and AccountName are the extracted header values, its
\* NumTransactions and TotalAmount are the computed summary, and every
\* balance code of the statement maps to the last balance of that code: no
\* balance overwrites a header field, no summary field a balance.
C21_FlattenedRecord ==
    Returned("Camt053Parser") =>
        /\ Len(out.val.statements) = Len(doc.Stmt)
        /\ \A s \in 1..Len(doc.Stmt) : HoldsAll(out.val.statements[s], doc.Stmt[s])

----------------------------------------------------------------------------
\* The CamtParser object of the file and the Camt053Parser object made of
\* the same file last, both made without an error.
BothSucceed ==
    /\ Returned("Camt053Parser")
    /\ tree.set
    /\ ~Raised(get_transactions(tree.root))
    /\ ~Raised(get_statement_stats(tree.root))

\* The rows of CamtParser.get_transactions and the transactions of
\* Camt053Parser: as many, and one by one of the same signed amount,
\* currency and credit/debit indicator.
SameTransactions(rows, transactions) ==
    /\ Len(rows) = Len(transactions)
    /\ \A g \in 1..Len(rows) :
          /\ rows[g].Amount = transactions[g].Amount
          /\ rows[g].Currency = transactions[g].Currency
          /\ rows[g].DrCr = transactions[g].CreditDebit

\* The rows of CamtParser.get_statement_stats and the statements of
\* Camt053Parser: as many, and one by one of the same count and net amount.
SameSummaries(stats, statements) ==
    /\ Len(stats) = Len(statements)
    /\ \A s \in 1..Len(stats) :
          /\ stats[s].NumTransactions = statements[s]["NumTransactions"]
          /\ stats[s].NetAmount = statements[s]["TotalAmount"]

----------------------------------------------------------------------------
\* The Stmt elements of the regular files that the first r rows of files_df
\* mark 'Success', in the order of the rows.
RECURSIVE StmtsOfSuccess(_)
StmtsOfSuccess(r) ==
    IF r = 0 THEN <<>>
    ELSE StmtsOfSuccess(r - 1) \o
             (IF files_df[r].Status = "Success"
              THEN RegularFiles(file_index)[r].file.Stmt ELSE <<>>)

\* The Ntry elements of the statements stmts, each with its Stmt, statement
\* after statement.
RECURSIVE NtryOf(_)
NtryOf(stmts) ==
    IF stmts = <<>> THEN <<>>
    ELSE [k \in 1..Len(stmts[1].Ntry) |-> [Stmt |-> stmts[1], Ntry |-> stmts[1].Ntry[k]]]
             \o NtryOf(Tail(stmts))

\* The statuses a row of files_df can have.
Statuses == { "Success" } \cup { "Failed: " \o m : m \in Reasons }

\* C23: the three tables of process_camt053_folder agree.  files_df has one
\* row for every regular file the loop has passed, in processing order, with
\* the status 'Success' or 'Failed: <reason>'; statements_df and
\* transactions_df are the records of the files marked 'Success', file after
\* file in processing order: every Stmt and every Ntry of such a file has
\* its row, and a file marked 'Failed' has none.
C23_FolderTables ==
    /\ Len(files_df) = Len(RegularFiles(file_index))
    /\ \A r \in 1..Len(files_df) :
          /\ files_df[r].FileName = RegularFiles(file_index)[r].FileName
          /\ files_df[r].Status \in Statuses
          /\ RegularFiles(file_index)[r].file \in GoodFiles =>
                files_df[r].Status = "Success"
    /\ LET stmts == StmtsOfSuccess(Len(files_df))
           entries == NtryOf(stmts)
       IN  /\ Len(statements_df) = Len(stmts)
           /\ \A g \in 1..Len(stmts) :
                 /\ statements_df[g]["StatementId"] = stmts[g].Id[1]
                 /\ statements_df[g]["AccountId"] = stmts[g].AcctId[1].text
                 /\ statements_df[g]["NumTransactions"] = Len(stmts[g].Ntry)
           /\ Len(transactions_df) = Len(entries)
           /\ \A g \in 1..Len(entries) :
                 /\ transactions_df[g].StatementId = entries[g].Stmt.Id[1]
                 /\ Abs(transactions_df[g].Amount) =
                       Hundredths(entries[g].Ntry.Amt[1].text)
                 /\ transactions_df[g].CreditDebit = entries[g].Ntry.CdtDbtInd[1]

\* A folder of two files that has been read to its end: the first has a
\* last entry whose amount is no number, the second is well-formed.  The
\* first is marked failed and has no row, the second has all of its rows.
C23_Witness ==
    /\ ended = "returned"
    /\ Len(folder) = 2
    /\ folder[1].file =
          File("xml", CamtNs, <<>>, <<>>,
               [FullStmts EXCEPT ![MaxStmts].Ntry[MaxEntries].Amt = << Amt("abc", <<"EUR">>) >>])
    /\ folder[2].file = File("xml", CamtNs, <<>>, <<>>, FullStmts)
    /\ Len(files_df) = 2
    /\ files_df[1].Status = "Failed: could not convert string to float: 'abc'"
    /\ files_df[2].Status = "Success"
    /\ Len(statements_df) = MaxStmts
    /\ Len(transactions_df) = MaxStmts * MaxEntries

====
